---- MODULE Spec2Model ----
(***************************************************************************)
(* Model of the swap pipeline of src/src/utils/oslot.js:                   *)
(*   executeSwapWithOSlot  (JSON-RPC relay variant, lines 13-143, and      *)
(*                          raw-broadcast variant, lines 293-348)          *)
(*   fetchSwapTransaction  (lines 154-276 and lines 359-481)               *)
(* and of the component that calls them, src/unnamed/part_000              *)
(* (SwapComponent, handleSwap lines 23-81).                                *)
(* Under Spec one behaviour is one call of one of the two functions.       *)
(* Under SwapSpec one behaviour is the life of the mounted component: the  *)
(* user edits the form and clicks, and each handleSwap run goes through    *)
(* its awaits.  An action is the synchronous code between two awaits; what *)
(* the environment answers (the wallet, the relay, the provider) is chosen *)
(* when the awaited promise settles.  The wallet connection does not       *)
(* change during a behaviour.                                              *)
(*                                                                         *)
(* A JavaScript string is a sequence of chunks (TLA+ strings), so that     *)
(* concatenation is \o and the empty string is << >>.                      *)
(***************************************************************************)
EXTENDS Integers, Sequences, FiniteSets, TLC

VARIABLES
    op,        \* "submit" or "fetch": the function this behaviour calls
    variant,   \* which definition of the function is called
    pc,        \* the await the call is suspended at; "start", "done"
    args,      \* the arguments of the call
    tx,        \* submit: versionedTransaction / signedTransaction
    events,    \* the steps the call has taken, in order
    requests,  \* the network requests the call has issued, in order
    response,  \* the HTTP response the call is reading
    thrown,    \* the errors raised inside the try block, in order
    outcome,   \* how the call settled: returns and raises, in order
    connected, \* SwapComponent: the wallet is connected
    ui,        \* SwapComponent: the state the component renders from
    attempts,  \* SwapComponent: the handleSwap runs, with the calls each has made
    timers     \* SwapComponent: the pending form-reset timers

call == <<op, variant, pc, args, tx, events, requests, response, thrown, outcome>>
component == <<connected, ui, attempts, timers>>
vars == <<call, component>>

(***************************************************************************)
(* JavaScript values                                                       *)
(***************************************************************************)
Undefined == [t |-> "undefined"]
Null == [t |-> "null"]
NaN == [t |-> "NaN"]
Str(chunks) == [t |-> "string", s |-> chunks]
Num(n) == [t |-> "number", n |-> n]
\* the number n + 0.5
Half(n) == [t |-> "number", n |-> n, half |-> TRUE]
IsHalf(v) == "half" \in DOMAIN v

\* ToBoolean, as applied by if (...) and ||
Truthy(v) ==
    CASE v.t = "undefined" -> FALSE
      [] v.t = "null" -> FALSE
      [] v.t = "string" -> v.s # << >>
      [] v.t = "number" -> v.n # 0 \/ IsHalf(v)
      [] v.t = "NaN" -> FALSE
      [] OTHER -> TRUE

\* a || b
Or(a, b) == IF Truthy(a) THEN a ELSE b

\* v.name : undefined when v is a primitive or lacks the property.
\* Reading a property of null or undefined throws (CanRead is FALSE).
CanRead(v) == v.t \notin {"undefined", "null"}
Prop(v, name) == IF v.t = "object" /\ name \in DOMAIN v THEN v[name] ELSE Undefined

\* String(v), as applied by a template literal and by new Error(v)
ToStr(v) ==
    CASE v.t = "string" -> v.s
      [] v.t = "number" -> IF IsHalf(v) THEN <<ToString(v.n), ".5">> ELSE <<ToString(v.n)>>
      [] OTHER -> <<v.t>>

\* s.includes(m) on chunk sequences: m occurs as a contiguous run of s
Includes(s, m) ==
    \E i \in 0..(Len(s) - Len(m)) : SubSeq(s, i + 1, i + Len(m)) = m

(***************************************************************************)
(* JSON.stringify of the values a relay body is made of                    *)
(***************************************************************************)
Quote(s) == <<"\"">> \o s \o <<"\"">>

StringifyPrim(v) ==
    CASE v.t = "null" -> <<"null">>
      [] v.t = "string" -> Quote(v.s)
      [] v.t = "number" -> <<ToString(v.n)>>
      [] OTHER -> << >>

\* the members of an object literal, comma separated
RECURSIVE Join(_)
Join(members) ==
    IF members = << >> THEN << >>
    ELSE IF Len(members) = 1 THEN Head(members)
    ELSE Head(members) \o <<",">> \o Join(Tail(members))

Member(name, text) == IF text = << >> THEN << >> ELSE << Quote(<<name>>) \o <<":">> \o text >>

StringifyError(e) ==
    IF e.t = "object"
    THEN <<"{">>
         \o Join(Member("message", StringifyPrim(e.message))
                 \o Member("code", StringifyPrim(e.code)))
         \o <<"}">>
    ELSE StringifyPrim(e)

StringifyBody(b) ==
    IF b.t = "object"
    THEN <<"{">>
         \o Join(Member("result", StringifyPrim(b.result))
                 \o Member("error", StringifyError(b.error))
                 \o Member("signature", StringifyPrim(b.signature))
                 \o Member("txid", StringifyPrim(b.txid))
                 \o Member("txSignature", StringifyPrim(b.txSignature))
                 \o Member("message", StringifyPrim(b.message)))
         \o <<"}">>
    ELSE StringifyPrim(b)

(***************************************************************************)
(* What the relay can answer (JSON-RPC variant)                            *)
(***************************************************************************)
\* a field that is absent, empty, or carries the given text
Field(text) == {Undefined, Str(<< >>), Str(<<text>>)}

ErrorObjects ==
    {[t |-> "object", message |-> m, code |-> c] :
        m \in Field("blockhash not found"), c \in {Undefined, Num(0), Num(-32002)}}

RelayObject(result, error, signature, txid, txSignature, message) ==
    [t |-> "object", result |-> result, error |-> error, signature |-> signature,
     txid |-> txid, txSignature |-> txSignature, message |-> message]

\* bodies over the five fields the 200 path reads
ResultBodies ==
    {RelayObject(r, e, s, i, x, Undefined) :
        r \in Field("abc123"), e \in {Undefined, Null} \cup ErrorObjects,
        s \in Field("sig7"), i \in Field("sig9"), x \in Field("sig11")}

\* bodies over the fields the non-200 path reads
ErrorBodies ==
    {RelayObject(r, e, Undefined, Undefined, Undefined, m) :
        r \in {Undefined, Str(<<"abc123">>)}, e \in {Undefined, Null} \cup ErrorObjects,
        m \in Field("rate limited")}

JsonValues == ResultBodies \cup ErrorBodies \cup {Null}

SyntaxErrorMark == [t |-> "syntaxerror"]
NonJsonTexts == {<< >>, <<"Bad Gateway">>, <<"<html>", "502", "</html>">>}

\* a response body: its text, and what JSON.parse makes of that text
RelayBodies ==
    {[text |-> StringifyBody(v), parsed |-> v] : v \in JsonValues}
    \cup {[text |-> t, parsed |-> SyntaxErrorMark] : t \in NonJsonTexts}

Statuses == {200, 201, 429, 500}

\* no response is being read
NoResponse ==
    [status |-> 0, ok |-> FALSE, statusText |-> << >>,
     body |-> [text |-> << >>, parsed |-> Undefined]]

(***************************************************************************)
(* Transactions: the transport encoding and the wallet                     *)
(***************************************************************************)
\* Serialized bytes: a signature count, that many signature slots, the message.
SigCount(header) == CASE header = "n1" -> 1 [] header = "n2" -> 2 [] OTHER -> -1

\* Buffer.from(text, 'base64') and Buffer.from(bytes).toString('base64')
FromBase64(text) == text.b64
ToBase64(bytes) == [b64 |-> bytes]

\* VersionedTransaction.deserialize throws on bytes that are no transaction
WellFormed(bytes) ==
    /\ Len(bytes) >= 2
    /\ SigCount(bytes[1]) > 0
    /\ Len(bytes) = SigCount(bytes[1]) + 2

Deserialize(bytes) ==
    [t |-> "object",
     signatures |-> SubSeq(bytes, 2, Len(bytes) - 1),
     message |-> bytes[Len(bytes)]]

\* signedTransaction.serialize()
Serialize(transaction) ==
    <<IF Len(transaction.signatures) = 1 THEN "n1" ELSE "n2">>
    \o transaction.signatures \o <<transaction.message>>

\* the wallet fills the payer's signature slot
WalletSign(transaction) ==
    [transaction EXCEPT !.signatures = [@ EXCEPT ![1] = "walletSig"]]

EncodedTransactions ==
    {ToBase64(b) : b \in {<<"n1", "empty", "msgA">>,
                          <<"n2", "empty", "cosigner", "msgB">>,
                          << >>,
                          <<"n2", "empty", "msgA">>,
                          <<"zz", "msgA">>}}

\* what awaiting signTransaction(versionedTransaction) can give
SignerOutcomes == {"signed", "notATransaction", "rejected"}

\* what awaiting sendRawTransaction can give: the identifier of the
\* transaction, or a failure
BroadcastIds == {<<"5VERv8">>, <<"3nZbXq">>}

RelayEndpoint == <<"https://", "de1.0slot.trade", "/?api-key=", "k">>

(***************************************************************************)
(* Errors.  The code throws plain Error objects; kind names the case of    *)
(* the error taxonomy the throw site belongs to, site is the line.         *)
(***************************************************************************)
Err(kind, message, site) == [kind |-> kind, message |-> message, site |-> site]

Return(value) == [tag |-> "return", value |-> value]
Throw(error) == [tag |-> "throw", error |-> error]

\* catch (error) { ...; throw error; }
RethrowMutated(error) == [error EXCEPT !.message = <<"Swap failed: ">> \o @]
Rethrow(error) == error

\* The call settles: a return resolves the promise, a throw inside the try
\* block goes through the catch block and rejects it.
Settle(result) ==
    /\ pc' = "done"
    /\ IF result.tag = "return"
       THEN /\ outcome' = Append(outcome, result)
            /\ UNCHANGED thrown
       ELSE /\ thrown' = Append(thrown, result.error)
            /\ outcome' = Append(outcome, [tag |-> "raise", error |-> Rethrow(result.error)])

(***************************************************************************)
(* executeSwapWithOSlot, JSON-RPC variant: reading the relay's answer      *)
(***************************************************************************)
GenericMessage(status) ==
    <<"0slot execution failed: incorrect status code: ", ToString(status)>>

\* ErrorMessage with error.code left out
ErrorMessageWithoutCode(status, body) ==
    LET errorText == body.text
        errorData == body.parsed
        generic == GenericMessage(status)
    IN  IF errorData.t = "syntaxerror" \/ ~CanRead(errorData)
        THEN IF errorText # << >> THEN generic \o <<", ">> \o errorText ELSE generic
        ELSE IF Truthy(Prop(errorData, "error"))
             THEN ToStr(Or(Prop(Prop(errorData, "error"), "message"), Str(generic)))
             ELSE IF Truthy(Prop(errorData, "message"))
                  THEN ToStr(Prop(errorData, "message"))
                  ELSE generic

\* ErrorMessage with the top-level message left out
ErrorMessageWithoutTopLevel(status, body) ==
    LET errorText == body.text
        errorData == body.parsed
        generic == GenericMessage(status)
    IN  IF errorData.t = "syntaxerror" \/ ~CanRead(errorData)
        THEN IF errorText # << >> THEN generic \o <<", ">> \o errorText ELSE generic
        ELSE IF Truthy(Prop(errorData, "error"))
             THEN ToStr(Or(Or(Prop(Prop(errorData, "error"), "message"),
                              Prop(Prop(errorData, "error"), "code")),
                           Str(generic)))
             ELSE generic

\* lines 82-96: the message of the error thrown for a status other than 200
ErrorMessage(status, body) ==
    LET errorText == body.text
        errorData == body.parsed
        generic == GenericMessage(status)
    IN  IF errorData.t = "syntaxerror" \/ ~CanRead(errorData)
        THEN \* catch (e): JSON.parse threw, or errorData.error did
             IF errorText # << >> THEN generic \o <<", ">> \o errorText ELSE generic
        ELSE IF Truthy(Prop(errorData, "error"))
             THEN ToStr(Or(Or(Prop(Prop(errorData, "error"), "message"),
                              Prop(Prop(errorData, "error"), "code")),
                           Str(generic)))
             ELSE IF Truthy(Prop(errorData, "message"))
                  THEN ToStr(Prop(errorData, "message"))
                  ELSE generic

\* Normalize with the last fallback returned without a test
NormalizeUncheckedFallback(responseData) ==
    IF ~CanRead(responseData)
    THEN Throw(Err("TypeError", <<"Cannot read properties of ", responseData.t>>, 106))
    ELSE IF Truthy(Prop(responseData, "result"))
    THEN Return(Prop(responseData, "result"))
    ELSE IF Truthy(Prop(responseData, "error"))
    THEN Throw(Err("RelayRejected",
                   <<"0slot error: ">>
                   \o ToStr(Or(Prop(Prop(responseData, "error"), "message"),
                               Str(StringifyError(Prop(responseData, "error"))))),
                   118))
    ELSE IF Truthy(Prop(responseData, "signature"))
    THEN Return(Prop(responseData, "signature"))
    ELSE IF Truthy(Prop(responseData, "txid"))
    THEN Return(Prop(responseData, "txid"))
    ELSE Return(Prop(responseData, "txSignature"))

\* Normalize with the error tested before the result
NormalizeErrorFirst(responseData) ==
    IF ~CanRead(responseData)
    THEN Throw(Err("TypeError", <<"Cannot read properties of ", responseData.t>>, 106))
    ELSE IF Truthy(Prop(responseData, "error"))
    THEN Throw(Err("RelayRejected",
                   <<"0slot error: ">>
                   \o ToStr(Or(Prop(Prop(responseData, "error"), "message"),
                               Str(StringifyError(Prop(responseData, "error"))))),
                   118))
    ELSE IF Truthy(Prop(responseData, "result"))
    THEN Return(Prop(responseData, "result"))
    ELSE IF Truthy(Prop(responseData, "signature"))
    THEN Return(Prop(responseData, "signature"))
    ELSE IF Truthy(Prop(responseData, "txid"))
    THEN Return(Prop(responseData, "txid"))
    ELSE IF Truthy(Prop(responseData, "txSignature"))
    THEN Return(Prop(responseData, "txSignature"))
    ELSE Throw(Err("UnrecognizedResponse",
                   <<"Unexpected response format from 0slot endpoint">>, 135))

\* Normalize with the error always reported as JSON text
NormalizeStringifiedError(responseData) ==
    IF ~CanRead(responseData)
    THEN Throw(Err("TypeError", <<"Cannot read properties of ", responseData.t>>, 106))
    ELSE IF Truthy(Prop(responseData, "result"))
    THEN Return(Prop(responseData, "result"))
    ELSE IF Truthy(Prop(responseData, "error"))
    THEN Throw(Err("RelayRejected",
                   <<"0slot error: ">> \o StringifyError(Prop(responseData, "error")),
                   118))
    ELSE IF Truthy(Prop(responseData, "signature"))
    THEN Return(Prop(responseData, "signature"))
    ELSE IF Truthy(Prop(responseData, "txid"))
    THEN Return(Prop(responseData, "txid"))
    ELSE IF Truthy(Prop(responseData, "txSignature"))
    THEN Return(Prop(responseData, "txSignature"))
    ELSE Throw(Err("UnrecognizedResponse",
                   <<"Unexpected response format from 0slot endpoint">>, 135))

\* lines 105-137: the outcome for a status 200 body that parsed as JSON
Normalize(responseData) ==
    IF ~CanRead(responseData)
    THEN Throw(Err("TypeError", <<"Cannot read properties of ", responseData.t>>, 106))
    ELSE IF Truthy(Prop(responseData, "result"))
    THEN Return(Prop(responseData, "result"))
    ELSE IF Truthy(Prop(responseData, "error"))
    THEN Throw(Err("RelayRejected",
                   <<"0slot error: ">>
                   \o ToStr(Or(Prop(Prop(responseData, "error"), "message"),
                               Str(StringifyError(Prop(responseData, "error"))))),
                   118))
    ELSE IF Truthy(Prop(responseData, "signature"))
    THEN Return(Prop(responseData, "signature"))
    ELSE IF Truthy(Prop(responseData, "txid"))
    THEN Return(Prop(responseData, "txid"))
    ELSE IF Truthy(Prop(responseData, "txSignature"))
    THEN Return(Prop(responseData, "txSignature"))
    ELSE Throw(Err("UnrecognizedResponse",
                   <<"Unexpected response format from 0slot endpoint">>, 135))

(***************************************************************************)
(* executeSwapWithOSlot: the steps                                         *)
(***************************************************************************)
\* lines 39-67: the JSON-RPC 2.0 request
RpcRequest(endpoint, serializedTx) ==
    [call |-> "fetch", url |-> endpoint, method |-> "POST",
     body |-> [jsonrpc |-> "2.0", id |-> 1, method |-> "sendTransaction",
               transaction |-> serializedTx,
               config |-> [encoding |-> "base64", skipPreflight |-> TRUE,
                           preflightCommitment |-> "processed", maxRetries |-> 0]]]

\* BroadcastRequest with the node's default options
BroadcastRequestDefaultOptions(endpoint, serializedTx) ==
    [call |-> "sendRawTransaction", url |-> endpoint, raw |-> serializedTx,
     options |-> [skipPreflight |-> FALSE, maxRetries |-> 3]]

\* line 328: what awaiting sendRawTransaction resolves to
BroadcastAnswer(signature) ==
    [status |-> 200, body |-> [text |-> signature, parsed |-> Str(signature)]]

\* lines 320-331: the broadcast through a Connection to the endpoint
BroadcastRequest(endpoint, serializedTx) ==
    [call |-> "sendRawTransaction", url |-> endpoint, raw |-> serializedTx,
     options |-> [skipPreflight |-> TRUE, maxRetries |-> 0]]

\* SubmitDecode with the relay called before the wallet has signed
SubmitDecodeEager ==
    /\ op = "submit" /\ pc = "start"
    /\ LET transactionBuffer == FromBase64(args.transactionBase64)
       IN  IF WellFormed(transactionBuffer)
           THEN /\ tx' = Deserialize(transactionBuffer)
                /\ events' = events \o <<"decoded", "encoded", "relayCalled", "signCalled">>
                /\ requests' = Append(requests,
                       IF variant = "jsonrpc"
                       THEN RpcRequest(args.endpoint, ToBase64(transactionBuffer))
                       ELSE BroadcastRequest(args.endpoint, transactionBuffer))
                /\ pc' = "awaitSign"
                /\ UNCHANGED <<thrown, outcome>>
           ELSE /\ Settle(Throw(Err("MalformedTransaction",
                                    <<"failed to deserialize">>, 27)))
                /\ UNCHANGED <<tx, events, requests>>
    /\ UNCHANGED <<op, variant, args, response>>
    /\ UNCHANGED component

\* lines 19-30 (305-310): decode, then hand the transaction to the wallet
SubmitDecode ==
    /\ op = "submit" /\ pc = "start"
    /\ LET transactionBuffer == FromBase64(args.transactionBase64)
       IN  IF WellFormed(transactionBuffer)
           THEN /\ tx' = Deserialize(transactionBuffer)
                /\ events' = events \o <<"decoded", "signCalled">>
                /\ pc' = "awaitSign"
                /\ UNCHANGED <<thrown, outcome>>
           ELSE /\ Settle(Throw(Err("MalformedTransaction",
                                    <<"failed to deserialize">>, 27)))
                /\ UNCHANGED <<tx, events>>
    /\ UNCHANGED <<op, variant, args, requests, response>>
    /\ UNCHANGED component

\* lines 30-67 (310-331): the wallet settles; encode and call the relay
SubmitSigned ==
    /\ op = "submit" /\ pc = "awaitSign"
    /\ \E signer \in SignerOutcomes :
         CASE signer = "rejected" ->
                /\ Settle(Throw(Err("SignerRejected", <<"User rejected the request">>, 30)))
                /\ UNCHANGED <<tx, events, requests>>
           [] signer = "notATransaction" ->
                /\ tx' = Undefined
                /\ events' = Append(events, "signed")
                /\ Settle(Throw(Err("TypeError", <<"serialize is not a function">>, 33)))
                /\ UNCHANGED requests
           [] OTHER ->
                LET signedTransaction == WalletSign(tx)
                    serialized == Serialize(signedTransaction)
                IN  /\ tx' = signedTransaction
                    /\ events' = events \o <<"signed", "encoded", "relayCalled">>
                    /\ IF variant = "jsonrpc"
                       THEN /\ requests' = Append(requests,
                                   RpcRequest(args.endpoint, ToBase64(serialized)))
                            /\ pc' = "awaitFetch"
                       ELSE /\ requests' = Append(requests,
                                   BroadcastRequest(args.endpoint, serialized))
                            /\ pc' = "awaitBroadcast"
                    /\ UNCHANGED <<thrown, outcome>>
    /\ UNCHANGED <<op, variant, args, response>>
    /\ UNCHANGED component

\* lines 61-75, 101: the relay's response arrives (or the request fails)
SubmitResponse ==
    /\ op = "submit" /\ pc = "awaitFetch"
    /\ \/ /\ Settle(Throw(Err("NetworkError", <<"Failed to fetch">>, 61)))
          /\ UNCHANGED response
       \/ \E status \in Statuses, body \in RelayBodies :
            /\ response' = [status |-> status, body |-> body]
            /\ pc' = IF status # 200 THEN "awaitText" ELSE "awaitJson"
            /\ UNCHANGED <<thrown, outcome>>
    /\ UNCHANGED <<op, variant, args, tx, events, requests>>
    /\ UNCHANGED component

\* lines 75-98: a status other than 200
SubmitErrorText ==
    /\ op = "submit" /\ pc = "awaitText"
    /\ Settle(Throw(Err("RelayRejected",
                        ErrorMessage(response.status, response.body), 98)))
    /\ UNCHANGED <<op, variant, args, tx, events, requests, response>>
    /\ UNCHANGED component

\* lines 101-137: status 200
SubmitJson ==
    /\ op = "submit" /\ pc = "awaitJson"
    /\ IF response.body.parsed.t = "syntaxerror"
       THEN Settle(Throw(Err("SyntaxError", <<"Unexpected token">>, 101)))
       ELSE Settle(Normalize(response.body.parsed))
    /\ UNCHANGED <<op, variant, args, tx, events, requests, response>>
    /\ UNCHANGED component

\* lines 328-342: the broadcast settles
SubmitBroadcast ==
    /\ op = "submit" /\ pc = "awaitBroadcast"
    /\ \/ \E signature \in BroadcastIds :
            /\ response' = BroadcastAnswer(signature)
            /\ Settle(Return(Str(signature)))
       \/ /\ Settle(Throw(Err("SendTransactionError", <<"failed to send transaction">>, 328)))
          /\ UNCHANGED response
    /\ UNCHANGED <<op, variant, args, tx, events, requests>>
    /\ UNCHANGED component

(***************************************************************************)
(* fetchSwapTransaction: endpoints, parameters, provider answers           *)
(***************************************************************************)
MaxSegs == 2

\* the pieces an endpoint string is put together from
Scheme == <<"https:", "/", "/">>
Segments ==
    {Scheme \o <<"localhost:4000">>,
     Scheme \o <<"metaagg.velvetdao.xyz">>,
     Scheme \o <<"quote", "-api.jup.ag">>,
     Scheme \o <<"api.example.com">>,
     <<"/", "route", "/", "solana", "/", "swap">>,
     <<"/", "quote">>,
     <<"/", "v1", "/", "tx">>}

RECURSIVE EndpointsOfLen(_)
EndpointsOfLen(n) ==
    IF n = 0 THEN {<< >>}
    ELSE {e \o s : e \in EndpointsOfLen(n - 1), s \in Segments}

Endpoints == UNION {EndpointsOfLen(n) : n \in 1..MaxSegs}

\* the substrings the endpoint is searched for
RouteMarker == <<"route", "/", "solana", "/", "swap">>
LocalhostMarker == <<"localhost:4000">>
MetaaggMarker == <<"metaagg.velvetdao.xyz">>
QuoteHostMarker == <<"quote", "-api.jup.ag">>
QuotePathMarker == <<"/", "quote">>
SwapConstructionUrl == Scheme \o <<"quote", "-api.jup.ag", "/", "v6", "/", "swap">>

\* line 157 (first definition) and line 362 (second definition)
IsAggregator(definition, swapEndpoint) ==
    IF definition = "first"
    THEN Includes(swapEndpoint, RouteMarker) \/ Includes(swapEndpoint, LocalhostMarker)
    ELSE Includes(swapEndpoint, RouteMarker) \/ Includes(swapEndpoint, MetaaggMarker)

\* line 194 (399)
IsQuote(swapEndpoint) ==
    Includes(swapEndpoint, QuoteHostMarker) \/ Includes(swapEndpoint, QuotePathMarker)

\* the if / else if / else of lines 157, 194, 245
SelectBranchQuoteFirst(definition, swapEndpoint) ==
    IF IsQuote(swapEndpoint) THEN "quote"
    ELSE IF IsAggregator(definition, swapEndpoint) THEN "aggregator"
    ELSE "legacy"
SelectBranch(definition, swapEndpoint) ==
    IF IsAggregator(definition, swapEndpoint) THEN "aggregator"
    ELSE IF IsQuote(swapEndpoint) THEN "quote"
    ELSE "legacy"

SwapParams ==
    {[t |-> "object", inputMint |-> <<"So111">>, outputMint |-> <<"EPjFW">>,
      amount |-> Num(1000), slippageBps |-> b] : b \in {Undefined, Num(0), Num(100)}}

UserPublicKey == <<"payer1">>

\* a provider's JSON bodies
DataValues ==
    {Undefined, Null} \cup {[t |-> "object", swapData |-> d] : d \in Field("b64agg")}

ProviderObject(data, transaction, swapTransaction, txField) ==
    [t |-> "object", data |-> data, transaction |-> transaction,
     swapTransaction |-> swapTransaction, tx |-> txField]

ProviderValues ==
    {ProviderObject(d, Undefined, Undefined, Undefined) : d \in DataValues}
    \cup {ProviderObject(Undefined, a, b, c) :
            a \in Field("b64transaction"), b \in Field("b64swapTransaction"),
            c \in Field("b64tx")}
    \cup {Null}

ProviderBodies ==
    {[text |-> <<"json">>, parsed |-> v] : v \in ProviderValues}
    \cup {[text |-> t, parsed |-> SyntaxErrorMark] : t \in {<<"upstream timeout">>}}

StatusTexts == {<< >>, <<"Bad Request">>}
FailureTexts == {<< >>, <<"upstream timeout">>}

\* what awaiting fetch(...) resolves to, for the bodies a provider step answers with
ResponsesWith(bodies) ==
    {[ok |-> TRUE, statusText |-> <<"OK">>, body |-> b] : b \in bodies}
    \cup {[ok |-> FALSE, statusText |-> st, body |-> [text |-> x, parsed |-> SyntaxErrorMark]] :
            st \in StatusTexts, x \in FailureTexts}

ProviderResponses == ResponsesWith(ProviderBodies)

\* the quote a quote endpoint answers with (opaque, forwarded as it is)
QuoteBodies ==
    {[text |-> <<"json">>, parsed |-> v] :
        v \in {[t |-> "object", outAmount |-> <<"42">>], Null}}
    \cup {[text |-> <<"upstream timeout">>, parsed |-> SyntaxErrorMark]}

QuoteResponses == ResponsesWith(QuoteBodies)

(***************************************************************************)
(* fetchSwapTransaction: reading the provider's answer                     *)
(***************************************************************************)
\* lines 184-193
ExtractAggregator(responseData) ==
    IF ~CanRead(responseData)
    THEN Throw(Err("TypeError", <<"Cannot read properties of ", responseData.t>>, 185))
    ELSE IF Truthy(Prop(responseData, "data"))
            /\ Truthy(Prop(Prop(responseData, "data"), "swapData"))
    THEN Return(Prop(Prop(responseData, "data"), "swapData"))
    ELSE Throw(Err("InvalidResponseShape",
                   <<"Invalid response format from swap endpoint. Expected data.swapData">>,
                   192))

\* lines 240-244
ExtractSwap(swapData) ==
    IF ~CanRead(swapData)
    THEN Throw(Err("TypeError", <<"Cannot read properties of ", swapData.t>>, 240))
    ELSE IF Truthy(Prop(swapData, "swapTransaction"))
    THEN Return(Prop(swapData, "swapTransaction"))
    ELSE Throw(Err("InvalidResponseShape",
                   <<"Invalid response format from Jupiter swap API">>, 243))

\* ExtractLegacy with the last field returned without a test
ExtractLegacyUnchecked(data) ==
    IF ~CanRead(data)
    THEN Throw(Err("TypeError", <<"Cannot read properties of ", data.t>>, 262))
    ELSE IF Truthy(Prop(data, "transaction"))
    THEN Return(Prop(data, "transaction"))
    ELSE IF Truthy(Prop(data, "swapTransaction"))
    THEN Return(Prop(data, "swapTransaction"))
    ELSE Return(Prop(data, "tx"))

\* ExtractLegacy with the fields tested in the reverse order
ExtractLegacyTxFirst(data) ==
    IF ~CanRead(data)
    THEN Throw(Err("TypeError", <<"Cannot read properties of ", data.t>>, 262))
    ELSE IF Truthy(Prop(data, "tx"))
    THEN Return(Prop(data, "tx"))
    ELSE IF Truthy(Prop(data, "swapTransaction"))
    THEN Return(Prop(data, "swapTransaction"))
    ELSE IF Truthy(Prop(data, "transaction"))
    THEN Return(Prop(data, "transaction"))
    ELSE Throw(Err("InvalidResponseShape",
                   <<"Invalid response format from swap endpoint">>, 269))

\* lines 261-270
ExtractLegacy(data) ==
    IF ~CanRead(data)
    THEN Throw(Err("TypeError", <<"Cannot read properties of ", data.t>>, 262))
    ELSE IF Truthy(Prop(data, "transaction"))
    THEN Return(Prop(data, "transaction"))
    ELSE IF Truthy(Prop(data, "swapTransaction"))
    THEN Return(Prop(data, "swapTransaction"))
    ELSE IF Truthy(Prop(data, "tx"))
    THEN Return(Prop(data, "tx"))
    ELSE Throw(Err("InvalidResponseShape",
                   <<"Invalid response format from swap endpoint">>, 269))

(***************************************************************************)
(* fetchSwapTransaction: the requests                                      *)
(***************************************************************************)
\* lines 159-175
AggregatorRequest(swapEndpoint, swapParams, userPublicKey) ==
    [call |-> "fetch", method |-> "GET", url |-> swapEndpoint,
     query |-> [tokenIn |-> swapParams.inputMint, tokenOut |-> swapParams.outputMint,
                amount |-> ToStr(swapParams.amount), sender |-> userPublicKey,
                slippage |-> ToStr(Or(swapParams.slippageBps, Num(50)))]]

\* lines 197-211
QuoteRequest(swapEndpoint, swapParams) ==
    [call |-> "fetch", method |-> "GET", url |-> swapEndpoint,
     query |-> [inputMint |-> swapParams.inputMint, outputMint |-> swapParams.outputMint,
                amount |-> ToStr(swapParams.amount),
                slippageBps |-> ToStr(Or(swapParams.slippageBps, Num(50)))]]

\* SwapRequest with the quote wrapped in another object
SwapRequestWrappedQuote(quoteData, userPublicKey) ==
    [call |-> "fetch", method |-> "POST", url |-> SwapConstructionUrl,
     body |-> [quoteResponse |-> [t |-> "object", quote |-> quoteData],
               userPublicKey |-> userPublicKey,
               wrapAndUnwrapSol |-> TRUE, dynamicComputeUnitLimit |-> TRUE,
               prioritizationFeeLamports |-> "auto"]]

\* lines 219-231
SwapRequest(quoteData, userPublicKey) ==
    [call |-> "fetch", method |-> "POST", url |-> SwapConstructionUrl,
     body |-> [quoteResponse |-> quoteData, userPublicKey |-> userPublicKey,
               wrapAndUnwrapSol |-> TRUE, dynamicComputeUnitLimit |-> TRUE,
               prioritizationFeeLamports |-> "auto"]]

\* lines 247-253
LegacyRequest(swapEndpoint, swapParams) ==
    [call |-> "fetch", method |-> "POST", url |-> swapEndpoint, body |-> swapParams]

(***************************************************************************)
(* fetchSwapTransaction: the steps                                         *)
(***************************************************************************)
\* lines 155-175, 194-211, 245-253: pick the branch, send its first request
FetchStart ==
    /\ op = "fetch" /\ pc = "start"
    /\ LET branch == SelectBranch(variant, args.swapEndpoint)
       IN  /\ events' = Append(events, branch)
           /\ requests' = Append(requests,
                CASE branch = "aggregator" ->
                       AggregatorRequest(args.swapEndpoint, args.swapParams, args.userPublicKey)
                  [] branch = "quote" -> QuoteRequest(args.swapEndpoint, args.swapParams)
                  [] OTHER -> LegacyRequest(args.swapEndpoint, args.swapParams))
           /\ pc' = CASE branch = "aggregator" -> "awaitAggregator"
                      [] branch = "quote" -> "awaitQuote"
                      [] OTHER -> "awaitLegacy"
    /\ UNCHANGED <<op, variant, args, tx, response, thrown, outcome>>
    /\ UNCHANGED component

\* a fetch(...) promise settles: it rejects, or resolves to a response
Rejects(site) ==
    /\ Settle(Throw(Err("NetworkError", <<"Failed to fetch">>, site)))
    /\ UNCHANGED response

\* lines 170-182
FetchAggregatorResponse ==
    /\ op = "fetch" /\ pc = "awaitAggregator"
    /\ \/ Rejects(170)
       \/ \E r \in ProviderResponses :
            /\ response' = r
            /\ pc' = IF r.ok THEN "awaitAggregatorJson" ELSE "awaitAggregatorText"
            /\ UNCHANGED <<thrown, outcome>>
    /\ UNCHANGED <<op, variant, args, tx, events, requests>>
    /\ UNCHANGED component

\* FetchAggregatorText with the response body text left out of the message
FetchAggregatorTextWithoutBody ==
    /\ op = "fetch" /\ pc = "awaitAggregatorText"
    /\ Settle(Throw(Err("FetchError",
                        <<"Failed to fetch swap transaction: ">> \o response.statusText,
                        179)))
    /\ UNCHANGED <<op, variant, args, tx, events, requests, response>>
    /\ UNCHANGED component

\* lines 178-179
FetchAggregatorText ==
    /\ op = "fetch" /\ pc = "awaitAggregatorText"
    /\ Settle(Throw(Err("FetchError",
                        <<"Failed to fetch swap transaction: ">> \o response.statusText
                        \o <<" - ">> \o response.body.text, 179)))
    /\ UNCHANGED <<op, variant, args, tx, events, requests, response>>
    /\ UNCHANGED component

\* lines 182-193
FetchAggregatorJson ==
    /\ op = "fetch" /\ pc = "awaitAggregatorJson"
    /\ IF response.body.parsed.t = "syntaxerror"
       THEN Settle(Throw(Err("SyntaxError", <<"Unexpected token">>, 182)))
       ELSE Settle(ExtractAggregator(response.body.parsed))
    /\ UNCHANGED <<op, variant, args, tx, events, requests, response>>
    /\ UNCHANGED component

\* lines 211-216
FetchQuoteResponse ==
    /\ op = "fetch" /\ pc = "awaitQuote"
    /\ \/ Rejects(211)
       \/ \E r \in QuoteResponses :
            /\ response' = r
            /\ IF r.ok
               THEN pc' = "awaitQuoteJson" /\ UNCHANGED <<thrown, outcome>>
               ELSE Settle(Throw(Err("FetchError",
                                     <<"Failed to get quote: ">> \o r.statusText, 213)))
    /\ UNCHANGED <<op, variant, args, tx, events, requests>>
    /\ UNCHANGED component

\* lines 216-231: the quote is read and posted to the swap-construction URL
FetchQuoteJson ==
    /\ op = "fetch" /\ pc = "awaitQuoteJson"
    /\ IF response.body.parsed.t = "syntaxerror"
       THEN /\ Settle(Throw(Err("SyntaxError", <<"Unexpected token">>, 216)))
            /\ UNCHANGED <<requests, response>>
       ELSE LET quoteData == response.body.parsed
            IN  /\ requests' = Append(requests, SwapRequest(quoteData, args.userPublicKey))
                /\ response' = NoResponse
                /\ pc' = "awaitSwap"
                /\ UNCHANGED <<thrown, outcome>>
    /\ UNCHANGED <<op, variant, args, tx, events>>
    /\ UNCHANGED component

\* lines 219-238
FetchSwapResponse ==
    /\ op = "fetch" /\ pc = "awaitSwap"
    /\ \/ Rejects(219)
       \/ \E r \in ProviderResponses :
            /\ response' = r
            /\ pc' = IF r.ok THEN "awaitSwapJson" ELSE "awaitSwapText"
            /\ UNCHANGED <<thrown, outcome>>
    /\ UNCHANGED <<op, variant, args, tx, events, requests>>
    /\ UNCHANGED component

\* lines 234-235
FetchSwapText ==
    /\ op = "fetch" /\ pc = "awaitSwapText"
    /\ Settle(Throw(Err("FetchError",
                        <<"Failed to get swap transaction: ">> \o response.body.text, 235)))
    /\ UNCHANGED <<op, variant, args, tx, events, requests, response>>
    /\ UNCHANGED component

\* lines 238-244
FetchSwapJson ==
    /\ op = "fetch" /\ pc = "awaitSwapJson"
    /\ IF response.body.parsed.t = "syntaxerror"
       THEN Settle(Throw(Err("SyntaxError", <<"Unexpected token">>, 238)))
       ELSE Settle(ExtractSwap(response.body.parsed))
    /\ UNCHANGED <<op, variant, args, tx, events, requests, response>>
    /\ UNCHANGED component

\* lines 247-259
FetchLegacyResponse ==
    /\ op = "fetch" /\ pc = "awaitLegacy"
    /\ \/ Rejects(247)
       \/ \E r \in ProviderResponses :
            /\ response' = r
            /\ IF r.ok
               THEN pc' = "awaitLegacyJson" /\ UNCHANGED <<thrown, outcome>>
               ELSE Settle(Throw(Err("FetchError",
                                     <<"Failed to fetch swap transaction: ">> \o r.statusText,
                                     256)))
    /\ UNCHANGED <<op, variant, args, tx, events, requests>>
    /\ UNCHANGED component

\* lines 259-270
FetchLegacyJson ==
    /\ op = "fetch" /\ pc = "awaitLegacyJson"
    /\ IF response.body.parsed.t = "syntaxerror"
       THEN Settle(Throw(Err("SyntaxError", <<"Unexpected token">>, 259)))
       ELSE Settle(ExtractLegacy(response.body.parsed))
    /\ UNCHANGED <<op, variant, args, tx, events, requests, response>>
    /\ UNCHANGED component

(***************************************************************************)
(* SwapComponent: numbers and the form's texts                             *)
(***************************************************************************)
MaxWhole == 1
MaxRuns == 2
MaxTimers == 2

\* the integers a text of the form can denote
Parsed == (-1 .. MaxWhole) \cup {50}

\* parseFloat(text): NaN for the empty text, else the number the text denotes
ParseFloat(text) ==
    IF text = << >>
    THEN NaN
    ELSE LET n == CHOOSE k \in Parsed : ToString(k) = text[1]
         IN  IF Len(text) = 2 THEN Half(n) ELSE Num(n)

\* Math.floor(v)
MathFloor(v) == IF v.t = "NaN" THEN NaN ELSE Num(v.n)

\* v <= 0 and v < 0; a comparison with NaN is false
LessOrEqualZero(v) == v.t = "number" /\ (v.n < 0 \/ (v.n = 0 /\ ~IsHalf(v)))
LessThanZero(v) == v.t = "number" /\ v.n < 0

\* what the user can type into the amount and slippage inputs (type="number":
\* the value is a decimal text, or empty)
AmountTexts ==
    {<< >>, <<"-1">>}
    \cup {<<ToString(w)>> : w \in 0..MaxWhole}
    \cup {<<ToString(w), ".5">> : w \in 0..MaxWhole}

SlippageTexts == {<< >>, <<"0">>, <<"0", ".5">>, <<"-1">>}

(***************************************************************************)
(* SwapComponent: state and handleSwap                                     *)
(***************************************************************************)
\* lines 10-21: the useState initial values
InitialUi ==
    [loading |-> FALSE, error |-> Null, success |-> Null, txSignature |-> Null,
     amount |-> Str(<< >>), slippage |-> Num(50)]

\* lines 16, 18-19: the endpoint and mints of the form, left as they are
SwapEndpoint == Scheme \o <<"metaagg", ".velvetdao.xyz", "/", "api", "/", "v1", "/",
                            "route", "/", "solana", "/", "swap">>
InputMint == <<"So111">>
OutputMint == <<"EPjFW">>

\* ButtonDisabled with the loading flag left out
ButtonDisabledWhenDisconnected(u, isConnected) == ~isConnected

\* line 179: disabled={loading || !connected}
ButtonDisabled(u, isConnected) == u.loading \/ ~isConnected

\* lines 24-37: the message of the validation that fails, null when none does
Validate(u, isConnected) ==
    IF ~isConnected
    THEN Str(<<"Please connect your wallet first">>)
    ELSE IF ~Truthy(u.amount) \/ LessOrEqualZero(ParseFloat(u.amount.s))
    THEN Str(<<"Please enter a valid amount">>)
    ELSE IF ~Truthy(u.slippage) \/ LessThanZero(ParseFloat(ToStr(u.slippage)))
    THEN Str(<<"Please enter a valid slippage in BPS">>)
    ELSE Null

\* lines 39-42
Begin(u) ==
    [u EXCEPT !.loading = TRUE, !.error = Null, !.success = Null, !.txSignature = Null]

\* lines 46-54
BuildSwapParams(u) ==
    [t |-> "object", inputMint |-> InputMint, outputMint |-> OutputMint,
     amount |-> MathFloor(ParseFloat(u.amount.s)),
     slippageBps |-> MathFloor(ParseFloat(ToStr(u.slippage)))]

\* lines 68-69
Succeed(u, signature) ==
    [u EXCEPT !.txSignature = signature,
              !.success = Str(<<"Swap executed successfully! Signature: ">>
                              \o ToStr(signature))]

\* lines 75-77
Catch(u, err) ==
    [u EXCEPT !.error = Or(Str(err.message), Str(<<"Swap failed. Please try again.">>))]

\* Finally with the loading flag left set
FinallyStillLoading(u) == u

\* lines 78-80
Finally(u) == [u EXCEPT !.loading = FALSE]

\* what awaiting fetchSwapTransaction gives handleSwap: an encoded transaction
\* (one that decodes, one that does not), or an error
FetchResults ==
    {Return(ToBase64(b)) : b \in {<<"n1", "empty", "msgA">>, <<"zz", "msgA">>}}
    \cup {Throw(Err("FetchError", <<"Failed to get quote: ", "Bad Request">>, 213))}

\* a wallet's rejection may come without a message
RejectionMessages == {<<"User rejected the request">>, << >>}

\* what the relay call of executeSwapWithOSlot ends in: an identifier, or an error
RelayResults ==
    {Return(Str(s)) : s \in BroadcastIds}
    \cup {Throw(Err("RelayRejected", <<"0slot error: ", "blockhash not found">>, 118))}

\* one entry of a run's call log
Call(name, argument) == [call |-> name, argument |-> argument]

\* the handleSwap runs that can be in progress at once; a run that has not
\* started; a run that is not in progress
Runs == 1..MaxRuns
IdleRun == [pc |-> "idle", swapParams |-> Undefined, fetched |-> << >>, calls |-> << >>]
Free(i) == attempts[i].pc \in {"idle", "done"}

\* the try block of run i ends by a throw: catch, then finally
Fails(i, err) ==
    /\ ui' = Finally(Catch(ui, err))
    /\ attempts' = [attempts EXCEPT ![i].pc = "done"]
    /\ UNCHANGED timers

\* line 148: the amount input, disabled while loading
SetAmount ==
    /\ op = "handleSwap" /\ connected
    /\ ~ui.loading
    /\ \E text \in AmountTexts : ui' = [ui EXCEPT !.amount = Str(text)]
    /\ UNCHANGED <<connected, attempts, timers>>
    /\ UNCHANGED call

\* line 165: the slippage input, disabled while loading
SetSlippage ==
    /\ op = "handleSwap" /\ connected
    /\ ~ui.loading
    /\ \E text \in SlippageTexts :
         ui' = [ui EXCEPT !.slippage = Or(ParseFloat(text), Num(50))]
    /\ UNCHANGED <<connected, attempts, timers>>
    /\ UNCHANGED call

\* lines 23-57, 178-179: a click on the button runs handleSwap up to its first
\* await; the state it sets is rendered before the next event is handled
HandleSwap ==
    /\ op = "handleSwap"
    /\ ~ButtonDisabled(ui, connected)
    /\ LET invalid == Validate(ui, connected)
       IN  IF invalid # Null
           THEN /\ ui' = [ui EXCEPT !.error = invalid]
                /\ UNCHANGED attempts
           ELSE /\ \E i \in Runs : Free(i)
                /\ ui' = Begin(ui)
                /\ LET i == CHOOSE k \in Runs : Free(k) /\ \A j \in 1..(k - 1) : ~Free(j)
                       swapParams == BuildSwapParams(ui)
                   IN  attempts' = [attempts EXCEPT ![i] =
                         [pc |-> "awaitFetch", swapParams |-> swapParams,
                          fetched |-> << >>,
                          calls |-> <<Call("fetchSwapTransaction",
                                           [swapEndpoint |-> SwapEndpoint,
                                            swapParams |-> swapParams,
                                            userPublicKey |-> UserPublicKey])>>]]
    /\ UNCHANGED <<connected, timers>>
    /\ UNCHANGED call

\* FetchSettled with executeSwapWithOSlot called whatever the fetch gave
FetchSettledUnchecked ==
    /\ op = "handleSwap"
    /\ \E i \in Runs, result \in FetchResults :
         /\ attempts[i].pc = "awaitFetch"
         /\ ui' = Finally(Catch(ui, Err("TypeError", <<"not a transaction">>, 26)))
         /\ attempts' = [attempts EXCEPT
               ![i].pc = "done", ![i].fetched = <<result>>,
               ![i].calls = Append(@, Call("executeSwapWithOSlot",
                                           IF result.tag = "return"
                                           THEN result.value ELSE Undefined))]
    /\ UNCHANGED <<connected, timers>>
    /\ UNCHANGED call

\* lines 57-66: the fetch settles; on a value executeSwapWithOSlot is called
\* with it, which decodes it and asks the wallet to sign (oslot.js 26-30)
FetchSettled ==
    /\ op = "handleSwap"
    /\ \E i \in Runs, result \in FetchResults :
         /\ attempts[i].pc = "awaitFetch"
         /\ IF result.tag = "throw"
            THEN /\ ui' = Finally(Catch(ui, result.error))
                 /\ attempts' = [attempts EXCEPT ![i].pc = "done",
                                                 ![i].fetched = <<result>>]
            ELSE LET transactionBase64 == result.value
                     transactionBuffer == FromBase64(transactionBase64)
                     submitCall == Call("executeSwapWithOSlot", transactionBase64)
                 IN  IF WellFormed(transactionBuffer)
                     THEN /\ attempts' = [attempts EXCEPT
                                ![i].pc = "awaitSign", ![i].fetched = <<result>>,
                                ![i].calls = @ \o
                                  <<submitCall,
                                    Call("signTransaction",
                                         Deserialize(transactionBuffer))>>]
                          /\ UNCHANGED ui
                     ELSE /\ ui' = Finally(Catch(ui,
                                     Err("InvalidTransaction",
                                         <<"failed to deserialize transaction">>, 27)))
                          /\ attempts' = [attempts EXCEPT
                                ![i].pc = "done", ![i].fetched = <<result>>,
                                ![i].calls = Append(@, submitCall)]
    /\ UNCHANGED <<connected, timers>>
    /\ UNCHANGED call

\* lines 61-66 (oslot.js 30-67, 310-331): the wallet settles; on a signed
\* transaction executeSwapWithOSlot encodes it and calls the relay
SignSettled ==
    /\ op = "handleSwap"
    /\ \E i \in Runs, signer \in SignerOutcomes :
         /\ attempts[i].pc = "awaitSign"
         /\ CASE signer = "rejected" ->
                   \E m \in RejectionMessages : Fails(i, Err("SignerRejected", m, 30))
              [] signer = "notATransaction" ->
                   Fails(i, Err("TypeError", <<"serialize is not a function">>, 33))
              [] OTHER ->
                   LET versionedTransaction ==
                           attempts[i].calls[Len(attempts[i].calls)].argument
                       serialized == Serialize(WalletSign(versionedTransaction))
                   IN  /\ attempts' = [attempts EXCEPT
                             ![i].pc = "awaitRelay",
                             ![i].calls = Append(@,
                               Call("relay",
                                    IF variant = "jsonrpc"
                                    THEN RpcRequest(RelayEndpoint, ToBase64(serialized))
                                    ELSE BroadcastRequest(RelayEndpoint, serialized)))]
                       /\ UNCHANGED <<ui, timers>>
    /\ UNCHANGED connected
    /\ UNCHANGED call

\* lines 61-80: executeSwapWithOSlot settles after its relay call
RelaySettled ==
    /\ op = "handleSwap"
    /\ \E i \in Runs, result \in RelayResults :
         /\ attempts[i].pc = "awaitRelay"
         /\ IF result.tag = "throw"
            THEN Fails(i, result.error)
            ELSE /\ timers < MaxTimers
                 /\ ui' = Finally(Succeed(ui, result.value))
                 /\ timers' = timers + 1
                 /\ attempts' = [attempts EXCEPT ![i].pc = "done"]
    /\ UNCHANGED connected
    /\ UNCHANGED call

\* lines 72-74: a form-reset timer fires
TimerFires ==
    /\ op = "handleSwap"
    /\ timers > 0
    /\ timers' = timers - 1
    /\ ui' = [ui EXCEPT !.amount = Str(<< >>)]
    /\ UNCHANGED <<connected, attempts>>
    /\ UNCHANGED call

InitSubmit ==
    /\ op = "submit"
    /\ variant \in {"jsonrpc", "broadcast"}
    /\ args \in {[transactionBase64 |-> e, endpoint |-> RelayEndpoint] :
                    e \in EncodedTransactions}

InitFetch ==
    /\ op = "fetch"
    /\ variant \in {"first", "second"}
    /\ args \in {[swapEndpoint |-> e, swapParams |-> p, userPublicKey |-> UserPublicKey] :
                    e \in Endpoints, p \in SwapParams}

\* the component is not mounted while a single call is followed
NoComponent ==
    /\ connected = FALSE
    /\ ui = InitialUi
    /\ attempts = [i \in Runs |-> IdleRun]
    /\ timers = 0

Init ==
    /\ (InitSubmit \/ InitFetch)
    /\ pc = "start"
    /\ tx = Undefined
    /\ events = << >>
    /\ requests = << >>
    /\ response = NoResponse
    /\ thrown = << >>
    /\ outcome = << >>
    /\ NoComponent

Next ==
    \/ SubmitDecode
    \/ SubmitSigned
    \/ SubmitResponse
    \/ SubmitErrorText
    \/ SubmitJson
    \/ SubmitBroadcast
    \/ FetchStart
    \/ FetchAggregatorResponse
    \/ FetchAggregatorText
    \/ FetchAggregatorJson
    \/ FetchQuoteResponse
    \/ FetchQuoteJson
    \/ FetchSwapResponse
    \/ FetchSwapText
    \/ FetchSwapJson
    \/ FetchLegacyResponse
    \/ FetchLegacyJson

Spec == Init /\ [][Next]_vars

\* the mounted component, with the wallet connected or not
SwapInit ==
    /\ op = "handleSwap"
    /\ variant \in {"jsonrpc", "broadcast"}
    /\ pc = "mounted"
    /\ args = Undefined
    /\ tx = Undefined
    /\ events = << >>
    /\ requests = << >>
    /\ response = NoResponse
    /\ thrown = << >>
    /\ outcome = << >>
    /\ connected \in BOOLEAN
    /\ ui = InitialUi
    /\ attempts = [i \in Runs |-> IdleRun]
    /\ timers = 0

SwapNext ==
    \/ SetAmount
    \/ SetSlippage
    \/ HandleSwap
    \/ FetchSettled
    \/ SignSettled
    \/ RelaySettled
    \/ TimerFires

SwapSpec == SwapInit /\ [][SwapNext]_vars

(***************************************************************************)
(* Properties                                                              *)
(***************************************************************************)
Done == pc = "done"

\* a field carries a value: it is there and is a non-empty string
Carries(v) == v.t = "string" /\ v.s # << >>

Returned(value) == outcome = <<[tag |-> "return", value |-> value]>>
Raised == Len(outcome) = 1 /\ outcome[1].tag = "raise"
RaisedKind(kind) == Raised /\ outcome[1].error.kind = kind

\* the relay answered status 200 with a JSON object, and submit has read it
Read200 ==
    /\ op = "submit" /\ variant = "jsonrpc" /\ Done
    /\ response.status = 200
    /\ response.body.parsed.t = "object"

C2_Priority ==
    Read200 =>
        LET b == response.body.parsed
        IN  IF Carries(b.result) THEN Returned(b.result)
            ELSE IF b.error.t = "object" THEN RaisedKind("RelayRejected")
            ELSE IF Carries(b.signature) THEN Returned(b.signature)
            ELSE IF Carries(b.txid) THEN Returned(b.txid)
            ELSE IF Carries(b.txSignature) THEN Returned(b.txSignature)
            ELSE RaisedKind("UnrecognizedResponse")

\* a body carrying result, error and fallback fields at once returns result
C2_Witness ==
    /\ Read200
    /\ response.body.parsed.error.t = "object"
    /\ Carries(response.body.parsed.txid)
    /\ Returned(Str(<<"abc123">>))

\* the relay answered 200 with no result and an error whose message is m
ErrorWithMessage ==
    /\ Read200
    /\ response.body.parsed.result = Undefined
    /\ response.body.parsed.error.t = "object"
    /\ Carries(response.body.parsed.error.message)

\* C3 as stated: the failure's message is exactly the error's message m.
C3_ExactMessage ==
    ErrorWithMessage =>
        /\ RaisedKind("RelayRejected")
        /\ outcome[1].error.message = response.body.parsed.error.message.s

\* C3 as amended: the failure's message is "0slot error: " followed by m.
C3_PrefixedMessage ==
    ErrorWithMessage =>
        /\ RaisedKind("RelayRejected")
        /\ outcome[1].error.message
             = <<"0slot error: ">> \o response.body.parsed.error.message.s

C3_Witness ==
    /\ ErrorWithMessage
    /\ outcome[1].error.message = <<"0slot error: ", "blockhash not found">>

\* what the endpoint string contains
HasAggregatorMarker ==
    \/ Includes(args.swapEndpoint, RouteMarker)
    \/ Includes(args.swapEndpoint,
                IF variant = "first" THEN LocalhostMarker ELSE MetaaggMarker)
HasQuoteMarker ==
    \/ Includes(args.swapEndpoint, QuoteHostMarker)
    \/ Includes(args.swapEndpoint, QuotePathMarker)

\* the branch a request or a position of the call belongs to
RequestBranch(request) ==
    IF request.method = "GET"
    THEN IF "tokenIn" \in DOMAIN request.query THEN "aggregator" ELSE "quote"
    ELSE IF "quoteResponse" \in DOMAIN request.body THEN "quote" ELSE "legacy"

PcBranch ==
    CASE pc \in {"awaitAggregator", "awaitAggregatorText", "awaitAggregatorJson"} -> "aggregator"
      [] pc \in {"awaitQuote", "awaitQuoteJson", "awaitSwap", "awaitSwapText",
                 "awaitSwapJson"} -> "quote"
      [] pc \in {"awaitLegacy", "awaitLegacyJson"} -> "legacy"
      [] OTHER -> "none"

\* the call ran the given branch and nothing of another branch
RanOnly(branch) ==
    /\ events = <<branch>>
    /\ PcBranch \in {branch, "none"}
    /\ requests # << >>
    /\ \A i \in DOMAIN requests : RequestBranch(requests[i]) = branch

\* C4: once fetch has started exactly one branch runs, chosen from the
\* endpoint string: the aggregator branch when the string contains an
\* aggregator marker (also when it contains a quote marker as well), else the
\* quote branch when it contains a quote marker, else the legacy branch.
C4_BranchSelection ==
    (op = "fetch" /\ pc # "start") =>
        /\ HasAggregatorMarker => RanOnly("aggregator")
        /\ (~HasAggregatorMarker /\ HasQuoteMarker) => RanOnly("quote")
        /\ (~HasAggregatorMarker /\ ~HasQuoteMarker) => RanOnly("legacy")

\* an endpoint with both kinds of marker, served by the aggregator branch
C4_Witness ==
    /\ op = "fetch" /\ Done
    /\ HasAggregatorMarker /\ HasQuoteMarker
    /\ RanOnly("aggregator")
    /\ Returned(Str(<<"b64agg">>))

\* fetch has read the JSON object of a 2xx response in the given branch
ReadOk(branch) ==
    /\ op = "fetch" /\ Done
    /\ events = <<branch>>
    /\ response.ok
    /\ response.body.parsed.t = "object"
    /\ branch = "quote" => Len(requests) = 2

C6_ReturnsField ==
    LET b == response.body.parsed
    IN  /\ (ReadOk("aggregator") /\ b.data.t = "object" /\ Carries(b.data.swapData))
              => Returned(b.data.swapData)
        /\ (ReadOk("quote") /\ Carries(b.swapTransaction))
              => Returned(b.swapTransaction)
        /\ ReadOk("legacy") =>
              IF Carries(b.transaction) THEN Returned(b.transaction)
              ELSE IF Carries(b.swapTransaction) THEN Returned(b.swapTransaction)
              ELSE Carries(b.tx) => Returned(b.tx)

\* a legacy body carrying all three fields returns transaction
C6_Witness ==
    /\ ReadOk("legacy")
    /\ Carries(response.body.parsed.swapTransaction)
    /\ Carries(response.body.parsed.tx)
    /\ Returned(Str(<<"b64transaction">>))

\* the steps of submit, in the order the code takes them
SubmitSteps == <<"decoded", "signCalled", "signed", "encoded", "relayCalled">>

IsPrefix(s, t) == Len(s) <= Len(t) /\ SubSeq(t, 1, Len(s)) = s

\* the transaction a relay request carries
Carried(request) ==
    IF request.call = "fetch" THEN FromBase64(request.body.transaction) ELSE request.raw

\* C7: in a submit call the steps decode, sign, encode, relay call happen in
\* that order, each at most once: the signer is called once and only after a
\* successful decode; a relay request is issued only after the signer has
\* completed, and carries the encoding of the signed transaction; when
\* decoding fails or the signer rejects no relay request is issued.
C7_StepOrder ==
    op = "submit" =>
        /\ IsPrefix(events, SubmitSteps)
        /\ Len(requests) = (IF events = SubmitSteps THEN 1 ELSE 0)
        /\ \A i \in DOMAIN requests :
             /\ tx.t = "object" /\ tx.signatures[1] = "walletSig"
             /\ Carried(requests[i]) = Serialize(tx)
        /\ \A i \in DOMAIN thrown :
             thrown[i].kind \in {"MalformedTransaction", "SignerRejected"}
                => requests = << >>

\* the signer rejected: the call failed without a relay request
C7_Witness ==
    /\ op = "submit" /\ Done
    /\ events = <<"decoded", "signCalled">>
    /\ RaisedKind("SignerRejected")
    /\ requests = << >>

ReadNon200 ==
    /\ op = "submit" /\ variant = "jsonrpc" /\ Done
    /\ response.status \notin {0, 200}

\* the body is a JSON object with an error that has a message or a code
HasErrorDetail(b) ==
    /\ b.t = "object" /\ b.error.t = "object"
    /\ Carries(b.error.message) \/ (b.error.code.t = "number" /\ b.error.code.n # 0)

ErrorDetail(b) ==
    IF Carries(b.error.message) THEN b.error.message.s ELSE <<ToString(b.error.code.n)>>

\* C9 as stated: a status other than 200 fails with RelayRejected; the
\* message is error.message or error.code when the JSON body has one, and in
\* every other case the generic status message with the raw body text
\* appended.
C9_RawTextOtherwise ==
    ReadNon200 =>
        /\ RaisedKind("RelayRejected")
        /\ LET b == response.body.parsed
               message == outcome[1].error.message
           IN  IF HasErrorDetail(b) THEN message = ErrorDetail(b)
               ELSE /\ IsPrefix(GenericMessage(response.status), message)
                    /\ Includes(message, response.body.text)

\* C9 as amended: the raw body text is appended (after ", ") only when the
\* body is not JSON or is JSON null, and is not empty; a JSON body without
\* error.message and error.code gives its top-level message when it has no
\* error and a non-empty message, and the generic status message alone
\* otherwise.
C9_MessageExtraction ==
    ReadNon200 =>
        /\ RaisedKind("RelayRejected")
        /\ LET b == response.body.parsed
               text == response.body.text
               generic == GenericMessage(response.status)
               message == outcome[1].error.message
           IN  IF b.t \in {"syntaxerror", "null"}
               THEN message = (IF text = << >> THEN generic ELSE generic \o <<", ">> \o text)
               ELSE IF HasErrorDetail(b) THEN message = ErrorDetail(b)
               ELSE IF b.t = "object" /\ b.error.t # "object" /\ Carries(b.message)
               THEN message = b.message.s
               ELSE message = generic

\* an error with a code and no message: the code is the message
C9_Witness ==
    /\ ReadNon200
    /\ response.body.parsed.t = "object"
    /\ response.body.parsed.error.t = "object"
    /\ ~Carries(response.body.parsed.error.message)
    /\ outcome[1].error.message = <<"-32002">>

\* C10: for a status other than 200, a JSON body with a top-level message m
\* and no error fails with RelayRejected and message exactly m; a body that
\* is not JSON and not empty fails with RelayRejected and a message that
\* contains the raw body text.
C10_TopLevelMessage ==
    ReadNon200 =>
        LET b == response.body.parsed
        IN  /\ (b.t = "object" /\ b.error = Undefined /\ Carries(b.message))
                  => /\ RaisedKind("RelayRejected")
                     /\ outcome[1].error.message = b.message.s
            /\ (b.t = "syntaxerror" /\ response.body.text # << >>)
                  => /\ RaisedKind("RelayRejected")
                     /\ Includes(outcome[1].error.message, response.body.text)

C10_Witness ==
    /\ ReadNon200
    /\ response.status = 429
    /\ response.body.text = <<"{", "\"", "message", "\"", ":", "\"", "rate limited", "\"", "}">>
    /\ outcome[1].error.message = <<"rate limited">>

\* fetch has read a response that is not 2xx, at any of its four steps
ReadNotOk ==
    /\ op = "fetch" /\ Done
    /\ response # NoResponse
    /\ ~response.ok

\* the step whose response fetch read last
FetchStep ==
    IF events = <<"quote">>
    THEN IF Len(requests) = 2 THEN "swapPost" ELSE "quoteGet"
    ELSE IF events = <<"aggregator">> THEN "aggregatorGet" ELSE "legacyPost"

\* C11 as stated: at every provider step a response that is not 2xx makes
\* fetch fail with a FetchError whose message carries both the status text and
\* the response body text, and no transaction is returned.
C11_StatusAndBody ==
    ReadNotOk =>
        /\ RaisedKind("FetchError")
        /\ Includes(outcome[1].error.message, response.statusText)
        /\ Includes(outcome[1].error.message, response.body.text)

\* C11: at every provider step a response that is not 2xx makes fetch fail
\* with a FetchError and no transaction is returned; the message carries the
\* status text and the body text at the aggregator GET, the status text alone
\* at the quote GET and at the legacy POST, and the body text alone at the
\* swap-construction POST.
C11_FetchErrorPerStep ==
    ReadNotOk =>
        /\ RaisedKind("FetchError")
        /\ outcome[1].error.message =
              CASE FetchStep = "aggregatorGet" ->
                     <<"Failed to fetch swap transaction: ">> \o response.statusText
                     \o <<" - ">> \o response.body.text
                [] FetchStep = "quoteGet" ->
                     <<"Failed to get quote: ">> \o response.statusText
                [] FetchStep = "swapPost" ->
                     <<"Failed to get swap transaction: ">> \o response.body.text
                [] OTHER ->
                     <<"Failed to fetch swap transaction: ">> \o response.statusText

\* the swap-construction POST answers 'Bad Request' with a body: the message
\* has the body text and not the status text
C11_Witness ==
    /\ ReadNotOk
    /\ FetchStep = "swapPost"
    /\ response.statusText = <<"Bad Request">>
    /\ response.body.text = <<"upstream timeout">>
    /\ outcome[1].error.message = <<"Failed to get swap transaction: ", "upstream timeout">>

\* the quote branch is running or has run
InQuoteBranch == op = "fetch" /\ events = <<"quote">>

\* this step sends the swap-construction POST
SendsSwapPost == InQuoteBranch /\ Len(requests) = 1 /\ Len(requests') = 2

\* C12: in the quote branch the swap-construction POST is sent only after the
\* quote GET has answered 2xx, always to the fixed swap-construction URL, with
\* the quote response as it was read and the payer identity in its body; a
\* quote GET that is not 2xx ends fetch with a FetchError and no POST is sent;
\* a POST that is not 2xx ends fetch with a FetchError.
C12_TwoStepQuote ==
    /\ [][SendsSwapPost =>
             /\ response # NoResponse /\ response.ok
             /\ requests'[1] = requests[1]
             /\ requests'[2].method = "POST"
             /\ requests'[2].url = SwapConstructionUrl
             /\ requests'[2].body.quoteResponse = response.body.parsed
             /\ requests'[2].body.userPublicKey = args.userPublicKey]_vars
    /\ [](InQuoteBranch =>
             /\ Len(requests) \in {1, 2}
             /\ requests[1].method = "GET" /\ requests[1].url = args.swapEndpoint
             /\ (ReadNotOk /\ FetchStep = "quoteGet")
                   => RaisedKind("FetchError") /\ Len(requests) = 1
             /\ (ReadNotOk /\ FetchStep = "swapPost") => RaisedKind("FetchError"))

\* both steps answered 2xx: the quote went out in the POST and the
\* transaction of the second answer came back
C12_Witness ==
    /\ InQuoteBranch /\ Done
    /\ Len(requests) = 2
    /\ requests[2].url = SwapConstructionUrl
    /\ requests[2].body.quoteResponse = [t |-> "object", outAmount |-> <<"42">>]
    /\ requests[2].body.userPublicKey = UserPublicKey
    /\ Returned(Str(<<"b64swapTransaction">>))

\* Protocol B has called the broadcast and the call has settled
BroadcastSettled ==
    /\ op = "submit" /\ variant = "broadcast" /\ Done
    /\ "relayCalled" \in {events[i] : i \in 1..Len(events)}

\* C13: Protocol B makes exactly one broadcast call, with the signed raw
\* bytes, skipPreflight true and maxRetries 0, and no other network call; when
\* the broadcast answers identifier s, submit returns exactly s; when the
\* broadcast fails, submit fails with the error the broadcast raised.
C13_SingleBroadcast ==
    /\ (op = "submit" /\ variant = "broadcast") =>
          /\ Len(requests) <= 1
          /\ \A i \in 1..Len(requests) :
                /\ requests[i].call = "sendRawTransaction"
                /\ requests[i].url = args.endpoint
                /\ tx = WalletSign(Deserialize(FromBase64(args.transactionBase64)))
                /\ requests[i].raw = Serialize(tx)
                /\ requests[i].options = [skipPreflight |-> TRUE, maxRetries |-> 0]
    /\ BroadcastSettled =>
          /\ Len(requests) = 1
          /\ IF response = NoResponse
             THEN /\ thrown = <<Err("SendTransactionError",
                                    <<"failed to send transaction">>, 328)>>
                  /\ outcome = <<[tag |-> "raise", error |-> thrown[1]]>>
             ELSE Returned(response.body.parsed)

\* the broadcast answered an identifier and submit returned it
C13_Witness ==
    /\ BroadcastSettled
    /\ requests[1].options.maxRetries = 0
    /\ response.body.text = <<"3nZbXq">>
    /\ Returned(Str(<<"3nZbXq">>))

\* the slippage parameter of the first request of the aggregator and quote branches
SlippageSent ==
    IF events = <<"aggregator">>
    THEN requests[1].query.slippage
    ELSE requests[1].query.slippageBps

\* C15: the slippage sent to the provider (slippage in the aggregator GET,
\* slippageBps in the quote GET) is the request's slippage tolerance for every
\* value that is set within 0..10000, 0 included; 50 is sent only when the
\* tolerance is unset.
C15_SlippageSentAsSet ==
    (op = "fetch" /\ events \in {<<"aggregator">>, <<"quote">>}) =>
        LET slippageBps == args.swapParams.slippageBps
        IN  /\ (slippageBps.t = "number" /\ slippageBps.n \in 0..10000)
                  => SlippageSent = <<ToString(slippageBps.n)>>
            /\ slippageBps = Undefined => SlippageSent = <<"50">>

\* a tolerance of 0 goes out as 50
C15_ZeroSentAsDefault ==
    /\ op = "fetch" /\ events \in {<<"aggregator">>, <<"quote">>}
    /\ args.swapParams.slippageBps = Num(0)
    /\ SlippageSent = <<"50">>

(***************************************************************************)
(* Properties of SwapComponent                                             *)
(***************************************************************************)
\* the names of the calls run i has made, in order
CallNames(i) == [k \in 1..Len(attempts[i].calls) |-> attempts[i].calls[k].call]

HandleSwapSteps == <<"fetchSwapTransaction", "executeSwapWithOSlot", "signTransaction", "relay">>

InFlight(i) == attempts[i].pc \in {"awaitFetch", "awaitSign", "awaitRelay"}

\* C14: within one handleSwap run the fetch settles before submit begins;
\* submit is invoked at most once and only with the value a successful fetch
\* returned; when the fetch fails submit is never invoked, so neither the
\* signer nor the relay is called.
C14_FetchBeforeSubmit ==
    op = "handleSwap" =>
        \A i \in Runs :
            /\ IsPrefix(CallNames(i), HandleSwapSteps)
            /\ attempts[i].pc = "awaitFetch"
                  => attempts[i].fetched = << >> /\ CallNames(i) = <<"fetchSwapTransaction">>
            /\ Len(attempts[i].calls) >= 2
                  => attempts[i].fetched = <<Return(attempts[i].calls[2].argument)>>
            /\ (attempts[i].fetched # << >> /\ attempts[i].fetched[1].tag = "throw")
                  => /\ CallNames(i) = <<"fetchSwapTransaction">>
                     /\ attempts[i].pc = "done"

\* a fetch failed: the run is over with the fetch as its only call and the
\* fetch's message as the error
C14_Witness ==
    /\ op = "handleSwap"
    /\ attempts[1].pc = "done"
    /\ attempts[1].fetched = <<Throw(Err("FetchError",
                                         <<"Failed to get quote: ", "Bad Request">>, 213))>>
    /\ CallNames(1) = <<"fetchSwapTransaction">>
    /\ ui.error = Str(<<"Failed to get quote: ", "Bad Request">>)

\* the amount run i passed to fetchSwapTransaction
AmountSent(i) == attempts[i].calls[1].argument.swapParams.amount

\* C16: every request handleSwap passes to fetch has an integer amount above
\* 0: for every amount the user can enter, the handler rejects it with a
\* validation error before any network call, or sends an integer above 0.
C16_PositiveAmountSent ==
    op = "handleSwap" =>
        \A i \in Runs :
            attempts[i].calls # << >> =>
                /\ AmountSent(i).t = "number" /\ ~IsHalf(AmountSent(i))
                /\ AmountSent(i).n > 0

\* the amount 0.5 passes the validation and goes out as 0
C16_ZeroAmountSent ==
    /\ op = "handleSwap"
    /\ attempts[1].pc = "awaitFetch"
    /\ ui.amount = Str(<<"0", ".5">>)
    /\ AmountSent(1) = Num(0)

SuccessSet(u) == Truthy(u.success) /\ Truthy(u.txSignature)
ErrorSet(u) == Truthy(u.error)
ExactlyOneResult(u) ==
    \/ SuccessSet(u) /\ ~ErrorSet(u)
    \/ ErrorSet(u) /\ ~Truthy(u.success) /\ ~Truthy(u.txSignature)

\* C18: for every attempt that passes validation, loading is true from its
\* start until fetch and submit have settled; when it finishes loading is
\* false, on every path, and exactly one result state is set: success with
\* the transaction signature, or error.
C18_LoadingAndResult ==
    /\ [](op = "handleSwap" =>
            /\ (\E i \in Runs : InFlight(i)) => ui.loading
            /\ (\A i \in Runs : ~InFlight(i)) => ~ui.loading)
    /\ [][\A i \in Runs :
             (InFlight(i) /\ attempts'[i].pc = "done") =>
                 /\ ~ui'.loading
                 /\ ExactlyOneResult(ui')]_vars

\* an attempt has finished with a signature: success and the signature are
\* set, error is not, loading is false
C18_Witness ==
    /\ op = "handleSwap"
    /\ attempts[1].pc = "done"
    /\ ~ui.loading
    /\ ui.txSignature = Str(<<"5VERv8">>)
    /\ ui.success = Str(<<"Swap executed successfully! Signature: ", "5VERv8">>)
    /\ ui.error = Null

====
